---- MODULE Spec2Model ----
(***************************************************************************)
(* Recording pipeline of server.js: startRecordingForProducer,             *)
(* stopRecordingForProducer, the recorder's exit handler, convertOggToMp3  *)
(* and the HTTP handlers that drive them.                                  *)
(*                                                                         *)
(* One "call" is one invocation of startRecordingForProducer; its local    *)
(* variables (plainTransport, consumer, ff, sdpFile, outFile) are the      *)
(* per-call fields below.  An action is one run of the event loop: the     *)
(* continuation of an await, an event handler or an HTTP handler, from     *)
(* where it is resumed to where it suspends or returns.                    *)
(***************************************************************************)
EXTENDS Integers, FiniteSets, Sequences, TLC

(* ---------------------------------------------------------------- bounds *)

\* Invocations of startRecordingForProducer per producer (the second one
\* exists only in the specification with duplicate start calls).
MaxStarts == 2

\* The counters of close() and kill() calls saturate here.
MaxCount == 2

Producers == {"P1", "P2"}
Starts == 1..MaxStarts
Calls == Producers \X Starts

ProducerOf(c) == c[1]
FirstCall(p) == <<p, 1>>

(* ------------------------------------------------------------- constants *)

\* st.size > 8192
MinSize == 8192

NoSession == <<"none", 0>>
NoFile == -1
NoCode == -1
NoSignal == "null"

\* No request was served by the last step.
NoResponse == [route |-> "none", id |-> "none"]

CloseSignals == {"transportclose", "producerclose"}

\* (code, signal) of a child's 'exit' event: exactly one of them is null.
ExitStatuses ==
    { [code |-> 0, signal |-> NoSignal],
      [code |-> 1, signal |-> NoSignal],
      [code |-> 255, signal |-> NoSignal],
      [code |-> NoCode, signal |-> "SIGINT"],
      [code |-> NoCode, signal |-> "SIGKILL"] }

NotExited == [code |-> NoCode, signal |-> NoSignal]

\* What statSync(outFile) finds when the recorder exits: no file, or its size.
RawSizes == {NoFile, 2048, MinSize, MinSize + 1}

\* How a recorder can end: every exit status with every file size.
AllExits == [st : ExitStatuses, size : RawSizes]

\* The ends used where two sessions run side by side: one of each branch of
\* the exit handler (usable with data, usable by the interrupt alone, unusable).
CoreExits ==
    { [st |-> [code |-> 255, signal |-> NoSignal], size |-> MinSize + 1],
      [st |-> [code |-> NoCode, signal |-> "SIGINT"], size |-> 2048],
      [st |-> [code |-> 1, signal |-> NoSignal], size |-> 2048] }

\* Exit codes of the transcoder.
Mp3Codes == {0, 1}

\* RECORD_BITRATE as configured, and the default of convertOggToMp3's
\* bitrate parameter; the configured value is one that differs from it.
RECORD_BITRATE == "192k"
DefaultBitrate == "160k"

\* The transcoder's command line: its input file (the outFile of a call) and
\* its -b:a argument.
NoArgs == [input |-> NoSession, bitrate |-> "none"]

\* Whether consumer.close() and transport.close() throw in a stop.
NoThrow == [consumer |-> FALSE, transport |-> FALSE]
Throws == [consumer : BOOLEAN, transport : BOOLEAN]

(* ----------------------------------------------------------------- state *)

VARIABLES
    POST_CONVERT_MP3,   \* configuration, fixed at startup
    KEEP_OGG,           \* configuration, fixed at startup
    produced,           \* producers created by POST /produce so far
    producers,          \* the producers map (its keys)
    recordings,         \* the recordings map: producer -> registering call
    fired,              \* close signals each producer has emitted
    listeners,          \* cleanup listeners attached to each producer
    pc,                 \* where each call of startRecordingForProducer is
    transport,          \* plainTransport of the call
    consumer,           \* consumer of the call
    ff,                 \* recorder process of the call
    killed,             \* ff.killed
    ffExit,             \* (code, signal) the recorder exited with
    rawSize,            \* size of outFile when the recorder exited
    rawFile,            \* outFile exists
    sdpFile,            \* sdpFile exists
    hpc,                \* where the recorder's exit handler is
    mp3,                \* transcoder process of the call
    mp3Code,            \* exit code of the transcoder
    mp3Args,            \* command line of the transcoder
    stopLog,            \* what stopRecordingForProducer called, in order
    trCloses,           \* calls of plainTransport.close()
    coCloses,           \* calls of consumer.close()
    sigints,            \* interrupts delivered to the recorder
    cleanups,           \* runs of the cleanup listener of each producer
    res                 \* response of the request the last step served

confVars == <<POST_CONVERT_MP3, KEEP_OGG>>
prodVars == <<produced, producers, fired, listeners>>
heapVars == <<recordings, transport, consumer, killed, trCloses, coCloses, sigints,
              stopLog>>
flowVars == <<pc>>
procVars == <<ff, ffExit, rawSize, rawFile, sdpFile, hpc, mp3, mp3Code, mp3Args>>
vars == <<confVars, prodVars, heapVars, flowVars, procVars, cleanups, res>>

Init ==
    /\ POST_CONVERT_MP3 \in BOOLEAN
    /\ KEEP_OGG \in BOOLEAN
    /\ produced = {}
    /\ producers = {}
    /\ recordings = [p \in Producers |-> NoSession]
    /\ fired = [p \in Producers |-> {}]
    /\ listeners = [p \in Producers |-> 0]
    /\ pc = [c \in Calls |-> "idle"]
    /\ transport = [c \in Calls |-> "none"]
    /\ consumer = [c \in Calls |-> "none"]
    /\ ff = [c \in Calls |-> "none"]
    /\ killed = [c \in Calls |-> FALSE]
    /\ ffExit = [c \in Calls |-> NotExited]
    /\ rawSize = [c \in Calls |-> NoFile]
    /\ rawFile = [c \in Calls |-> FALSE]
    /\ sdpFile = [c \in Calls |-> FALSE]
    /\ hpc = [c \in Calls |-> "none"]
    /\ mp3 = [c \in Calls |-> "none"]
    /\ mp3Code = [c \in Calls |-> NoCode]
    /\ mp3Args = [c \in Calls |-> NoArgs]
    /\ stopLog = [c \in Calls |-> << >>]
    /\ trCloses = [c \in Calls |-> 0]
    /\ coCloses = [c \in Calls |-> 0]
    /\ sigints = [c \in Calls |-> 0]
    /\ cleanups = [p \in Producers |-> 0]
    /\ res = NoResponse

Inc(n) == IF n < MaxCount THEN n + 1 ELSE n

(* ------------------------------------------------ stopRecordingForProducer *)

\* The calls one stop makes, in the order of the code; the kill only when the
\* signal is sent.
StopCalls(sends) ==
    <<"consumer.close", "transport.close">>
        \o (IF sends THEN <<"kill SIGINT">> ELSE << >>)

\* The objects stopRecordingForProducer reads and writes, as one record.
Heap ==
    [ rec |-> recordings, tr |-> transport, co |-> consumer, kl |-> killed,
      tc |-> trCloses, cc |-> coCloses, sg |-> sigints, log |-> stopLog ]

\* stopRecordingForProducer without recordings.delete(producerId).
stop_keepsEntry(h, p, t) ==
    LET c == h.rec[p] IN
    IF c = NoSession THEN h
    ELSE LET sends == ~h.kl[c] /\ ff[c] = "running" IN
         [ h EXCEPT !.co[c] = IF t.consumer THEN @ ELSE "closed",
                    !.cc[c] = Inc(@),
                    !.tr[c] = IF t.transport THEN @ ELSE "closed",
                    !.tc[c] = Inc(@),
                    !.kl[c] = @ \/ sends,
                    !.sg[c] = IF sends THEN Inc(@) ELSE @,
                    !.log[c] = @ \o StopCalls(sends) ]

\* stopRecordingForProducer with recordings.clear() run ahead of the lookup
\* guard's return.
stop_clearsRegistry(h, p, t) ==
    LET c == h.rec[p] IN
    IF c = NoSession THEN [h EXCEPT !.rec = [q \in Producers |-> NoSession]]
    ELSE LET sends == ~h.kl[c] /\ ff[c] = "running" IN
         [ h EXCEPT !.co[c] = IF t.consumer THEN @ ELSE "closed",
                    !.cc[c] = Inc(@),
                    !.tr[c] = IF t.transport THEN @ ELSE "closed",
                    !.tc[c] = Inc(@),
                    !.kl[c] = @ \/ sends,
                    !.sg[c] = IF sends THEN Inc(@) ELSE @,
                    !.log[c] = @ \o StopCalls(sends),
                    !.rec[p] = NoSession ]

\* stopRecordingForProducer with one try block around the two close() calls
\* and the kill: what follows a throwing call is skipped.
stop_singleTry(h, p, t) ==
    LET c == h.rec[p] IN
    IF c = NoSession THEN h
    ELSE LET sends == ~h.kl[c] /\ ff[c] = "running" /\ ~t.consumer /\ ~t.transport IN
         [ h EXCEPT !.co[c] = IF t.consumer THEN @ ELSE "closed",
                    !.cc[c] = Inc(@),
                    !.tr[c] = IF t.consumer \/ t.transport THEN @ ELSE "closed",
                    !.tc[c] = IF t.consumer THEN @ ELSE Inc(@),
                    !.kl[c] = @ \/ sends,
                    !.sg[c] = IF sends THEN Inc(@) ELSE @,
                    !.log[c] = @ \o (IF t.consumer THEN <<"consumer.close">>
                                     ELSE StopCalls(sends)),
                    !.rec[p] = NoSession ]

\* stopRecordingForProducer closing the consumer of every call.
stop_stopsEvery(h, p, t) ==
    LET c == h.rec[p] IN
    IF c = NoSession THEN h
    ELSE LET sends == ~h.kl[c] /\ ff[c] = "running" IN
         [ h EXCEPT !.co = [d \in Calls |-> IF h.co[d] = "none" THEN "none" ELSE "closed"],
                    !.cc[c] = Inc(@),
                    !.tr[c] = IF t.transport THEN @ ELSE "closed",
                    !.tc[c] = Inc(@),
                    !.kl[c] = @ \/ sends,
                    !.sg[c] = IF sends THEN Inc(@) ELSE @,
                    !.log[c] = @ \o StopCalls(sends),
                    !.rec[p] = NoSession ]

\* Each close() sits in its own try block, so a throwing one (t) leaves its
\* object as it was and the next call still runs.  rec.ffmpeg.kill('SIGINT')
\* delivers the signal, and sets killed, only while the child still runs.
stopRecordingForProducer(h, p, t) ==
    LET c == h.rec[p] IN
    IF c = NoSession THEN h
    ELSE LET sends == ~h.kl[c] /\ ff[c] = "running" IN
         [ h EXCEPT !.co[c] = IF t.consumer THEN @ ELSE "closed",
                    !.cc[c] = Inc(@),
                    !.tr[c] = IF t.transport THEN @ ELSE "closed",
                    !.tc[c] = Inc(@),
                    !.kl[c] = @ \/ sends,
                    !.sg[c] = IF sends THEN Inc(@) ELSE @,
                    !.log[c] = @ \o StopCalls(sends),
                    !.rec[p] = NoSession ]

\* emit(): the n cleanup listeners of a producer run one after the other.
RECURSIVE cleanup(_, _, _, _)
cleanup(h, p, n, t) ==
    IF n = 0 THEN h ELSE cleanup(stopRecordingForProducer(h, p, t), p, n - 1, t)

SetHeap(h) ==
    /\ recordings' = h.rec
    /\ transport' = h.tr
    /\ consumer' = h.co
    /\ killed' = h.kl
    /\ trCloses' = h.tc
    /\ coCloses' = h.cc
    /\ sigints' = h.sg
    /\ stopLog' = h.log

\* A step that serves no request and runs no cleanup listener.
Quiet == res' = NoResponse /\ UNCHANGED cleanups

(* ----------------------------------------------------------- HTTP handlers *)

\* POST /produce, once transport.produce() has resolved: the producer is
\* stored, startRecordingForProducer runs up to its first await, and the
\* producers.delete listeners are attached.
Produce(p) ==
    /\ p \notin produced
    /\ produced' = produced \cup {p}
    /\ producers' = producers \cup {p}
    /\ pc' = [pc EXCEPT ![FirstCall(p)] = "getFreeUdpPort"]
    /\ res' = [route |-> "produce", id |-> p]
    /\ UNCHANGED <<confVars, fired, listeners, heapVars, procVars, cleanups>>

\* POST /stop-recording with a producerId: answers { ok: true }.
StopRequest(p, t) ==
    /\ SetHeap(stopRecordingForProducer(Heap, p, t))
    /\ res' = [route |-> "stop-recording", id |-> p]
    /\ UNCHANGED <<confVars, prodVars, flowVars, procVars, cleanups>>

\* The producer emits 'transportclose' or 'producerclose': the listener of
\* POST /produce deletes it from producers, then the cleanup listeners run.
CloseSignal(p, s, t) ==
    /\ p \in produced
    /\ s \notin fired[p]
    /\ fired' = [fired EXCEPT ![p] = @ \cup {s}]
    /\ producers' = producers \ {p}
    /\ SetHeap(cleanup(Heap, p, listeners[p], t))
    /\ cleanups' = [cleanups EXCEPT ![p] = IF listeners[p] > 0 THEN Inc(@) ELSE @]
    /\ res' = NoResponse
    /\ UNCHANGED <<confVars, produced, listeners, flowVars, procVars>>

(* ------------------------------------------- startRecordingForProducer *)

\* PortProbed with the rejection reaching POST /produce: the request fails
\* and the producer is dropped.
PortProbed_propagates(c, resolved) ==
    /\ pc[c] = "getFreeUdpPort"
    /\ pc' = [pc EXCEPT ![c] = IF resolved THEN "createPlainTransport" ELSE "failed"]
    /\ producers' = IF resolved THEN producers ELSE producers \ {ProducerOf(c)}
    /\ res' = IF resolved THEN NoResponse ELSE [route |-> "produce", id |-> "error"]
    /\ UNCHANGED <<confVars, produced, fired, listeners, heapVars, procVars, cleanups>>

\* await getFreeUdpPort() settles.
PortProbed(c, resolved) ==
    /\ pc[c] = "getFreeUdpPort"
    /\ pc' = [pc EXCEPT ![c] = IF resolved THEN "createPlainTransport" ELSE "failed"]
    /\ UNCHANGED <<confVars, prodVars, heapVars, procVars>>
    /\ Quiet

\* await router.createPlainTransport() settles.
TransportCreated(c, resolved) ==
    /\ pc[c] = "createPlainTransport"
    /\ IF resolved
         THEN /\ transport' = [transport EXCEPT ![c] = "open"]
              /\ pc' = [pc EXCEPT ![c] = "connect"]
         ELSE /\ pc' = [pc EXCEPT ![c] = "failed"]
              /\ UNCHANGED transport
    /\ UNCHANGED <<confVars, prodVars, recordings, consumer, killed,
                   trCloses, coCloses, sigints, stopLog, procVars>>
    /\ Quiet

\* Connected without plainTransport.close() on the canConsume branch.
Connected_keepsTransport(c, resolved, canConsume) ==
    /\ pc[c] = "connect"
    /\ pc' = [pc EXCEPT ![c] = IF ~resolved THEN "failed"
                               ELSE IF ~canConsume THEN "returned" ELSE "consume"]
    /\ UNCHANGED <<confVars, prodVars, heapVars, procVars>>
    /\ Quiet

\* await plainTransport.connect() settles; then router.canConsume() decides
\* between closing the transport and returning, and plainTransport.consume().
Connected(c, resolved, canConsume) ==
    /\ pc[c] = "connect"
    /\ IF ~resolved
         THEN /\ pc' = [pc EXCEPT ![c] = "failed"]
              /\ UNCHANGED <<transport, trCloses>>
         ELSE IF ~canConsume
           THEN /\ transport' = [transport EXCEPT ![c] = "closed"]
                /\ trCloses' = [trCloses EXCEPT ![c] = Inc(@)]
                /\ pc' = [pc EXCEPT ![c] = "returned"]
           ELSE /\ pc' = [pc EXCEPT ![c] = "consume"]
                /\ UNCHANGED <<transport, trCloses>>
    /\ UNCHANGED <<confVars, prodVars, recordings, consumer, killed,
                   coCloses, sigints, stopLog, procVars>>
    /\ Quiet

\* Consumed with the consumer created with paused: false.
Consumed_resumesEarly(c, resolved, written) ==
    /\ pc[c] = "consume"
    /\ IF ~resolved
         THEN /\ pc' = [pc EXCEPT ![c] = "failed"]
              /\ UNCHANGED <<consumer, sdpFile, ff>>
         ELSE IF ~written
           THEN /\ consumer' = [consumer EXCEPT ![c] = "paused"]
                /\ pc' = [pc EXCEPT ![c] = "failed"]
                /\ UNCHANGED <<sdpFile, ff>>
           ELSE /\ consumer' = [consumer EXCEPT ![c] = "resumed"]
                /\ sdpFile' = [sdpFile EXCEPT ![c] = TRUE]
                /\ ff' = [ff EXCEPT ![c] = "running"]
                /\ pc' = [pc EXCEPT ![c] = "settle"]
    /\ UNCHANGED <<confVars, prodVars, recordings, transport, killed,
                   trCloses, coCloses, sigints, stopLog,
                   ffExit, rawSize, rawFile, hpc, mp3, mp3Code, mp3Args>>
    /\ Quiet

\* await plainTransport.consume() settles; then the descriptor is written,
\* the recorder spawned, its exit handler registered and the timer started.
Consumed(c, resolved, written) ==
    /\ pc[c] = "consume"
    /\ IF ~resolved
         THEN /\ pc' = [pc EXCEPT ![c] = "failed"]
              /\ UNCHANGED <<consumer, sdpFile, ff>>
         ELSE IF ~written
           THEN /\ consumer' = [consumer EXCEPT ![c] = "paused"]
                /\ pc' = [pc EXCEPT ![c] = "failed"]
                /\ UNCHANGED <<sdpFile, ff>>
           ELSE /\ consumer' = [consumer EXCEPT ![c] = "paused"]
                /\ sdpFile' = [sdpFile EXCEPT ![c] = TRUE]
                /\ ff' = [ff EXCEPT ![c] = "running"]
                /\ pc' = [pc EXCEPT ![c] = "settle"]
    /\ UNCHANGED <<confVars, prodVars, recordings, transport, killed,
                   trCloses, coCloses, sigints, stopLog,
                   ffExit, rawSize, rawFile, hpc, mp3, mp3Code, mp3Args>>
    /\ Quiet

\* The 150 ms timer fires and consumer.resume() is called.
Settled(c) ==
    /\ pc[c] = "settle"
    /\ pc' = [pc EXCEPT ![c] = "resume"]
    /\ UNCHANGED <<confVars, prodVars, heapVars, procVars>>
    /\ Quiet

\* await consumer.resume() settles; then the session is registered and the
\* cleanup listeners are attached.
Resumed(c, resolved) ==
    /\ pc[c] = "resume"
    /\ IF ~resolved
         THEN /\ pc' = [pc EXCEPT ![c] = "failed"]
              /\ UNCHANGED <<consumer, recordings, listeners>>
         ELSE /\ consumer' = [consumer EXCEPT ![c] =
                                 IF @ = "paused" THEN "resumed" ELSE @]
              /\ recordings' = [recordings EXCEPT ![ProducerOf(c)] = c]
              /\ listeners' = [listeners EXCEPT ![ProducerOf(c)] = @ + 1]
              /\ pc' = [pc EXCEPT ![c] = "done"]
    /\ UNCHANGED <<confVars, produced, producers, fired, transport, killed,
                   trCloses, coCloses, sigints, stopLog, procVars>>
    /\ Quiet

(* ------------------------------------------------- ff.on('exit') handler *)

\* hasData with st.size >= 8192.
hasData_atThreshold(size) == size # NoFile /\ size >= MinSize

hasData(size) == size # NoFile /\ size > MinSize

\* ok without the signal === 'SIGINT' disjunct.
ok_withoutSigint(st, size) ==
    st.code = 0 \/ st.code = 255 \/ hasData(size)

ok(st, size) ==
    st.code = 0 \/ st.code = 255 \/ st.signal = "SIGINT" \/ hasData(size)

\* convertOggToMp3(oggFile, bitrate) spawns ffmpeg with -i oggFile and
\* -b:a bitrate.
convertOggToMp3(oggFile, bitrate) == [input |-> oggFile, bitrate |-> bitrate]

\* RecorderExit with the conversion started whatever POST_CONVERT_MP3 is.
RecorderExit_ignoresPost(c, st, size) ==
    /\ ff[c] = "running"
    /\ ff' = [ff EXCEPT ![c] = "exited"]
    /\ ffExit' = [ffExit EXCEPT ![c] = st]
    /\ rawSize' = [rawSize EXCEPT ![c] = size]
    /\ rawFile' = [rawFile EXCEPT ![c] = size # NoFile]
    /\ IF ok(st, size)
         THEN /\ mp3' = [mp3 EXCEPT ![c] = "running"]
              /\ mp3Args' = [mp3Args EXCEPT ![c] = convertOggToMp3(c, RECORD_BITRATE)]
              /\ hpc' = [hpc EXCEPT ![c] = "convert"]
              /\ UNCHANGED sdpFile
         ELSE /\ sdpFile' = [sdpFile EXCEPT ![c] = FALSE]
              /\ hpc' = [hpc EXCEPT ![c] = "done"]
              /\ UNCHANGED <<mp3, mp3Args>>
    /\ UNCHANGED <<confVars, prodVars, heapVars, flowVars, mp3Code>>
    /\ Quiet

\* RecorderExit calling convertOggToMp3(outFile), without the bitrate.
RecorderExit_defaultBitrate(c, st, size) ==
    /\ ff[c] = "running"
    /\ ff' = [ff EXCEPT ![c] = "exited"]
    /\ ffExit' = [ffExit EXCEPT ![c] = st]
    /\ rawSize' = [rawSize EXCEPT ![c] = size]
    /\ rawFile' = [rawFile EXCEPT ![c] = size # NoFile]
    /\ IF POST_CONVERT_MP3 /\ ok(st, size)
         THEN /\ mp3' = [mp3 EXCEPT ![c] = "running"]
              /\ mp3Args' = [mp3Args EXCEPT ![c] = convertOggToMp3(c, DefaultBitrate)]
              /\ hpc' = [hpc EXCEPT ![c] = "convert"]
              /\ UNCHANGED sdpFile
         ELSE /\ sdpFile' = [sdpFile EXCEPT ![c] = FALSE]
              /\ hpc' = [hpc EXCEPT ![c] = "done"]
              /\ UNCHANGED <<mp3, mp3Args>>
    /\ UNCHANGED <<confVars, prodVars, heapVars, flowVars, mp3Code>>
    /\ Quiet

\* RecorderExit with outFile unlinked as the transcoder is spawned, not
\* when it has exited.
RecorderExit_unlinksEarly(c, st, size) ==
    /\ ff[c] = "running"
    /\ ff' = [ff EXCEPT ![c] = "exited"]
    /\ ffExit' = [ffExit EXCEPT ![c] = st]
    /\ rawSize' = [rawSize EXCEPT ![c] = size]
    /\ rawFile' = [rawFile EXCEPT ![c] =
                      size # NoFile /\ ~(POST_CONVERT_MP3 /\ ok(st, size) /\ ~KEEP_OGG)]
    /\ IF POST_CONVERT_MP3 /\ ok(st, size)
         THEN /\ mp3' = [mp3 EXCEPT ![c] = "running"]
              /\ mp3Args' = [mp3Args EXCEPT ![c] = convertOggToMp3(c, RECORD_BITRATE)]
              /\ hpc' = [hpc EXCEPT ![c] = "convert"]
              /\ UNCHANGED sdpFile
         ELSE /\ sdpFile' = [sdpFile EXCEPT ![c] = FALSE]
              /\ hpc' = [hpc EXCEPT ![c] = "done"]
              /\ UNCHANGED <<mp3, mp3Args>>
    /\ UNCHANGED <<confVars, prodVars, heapVars, flowVars, mp3Code>>
    /\ Quiet

\* The recorder exits: the handler stats outFile, classifies the exit and
\* either starts the transcoder or removes the descriptor.
RecorderExit(c, st, size) ==
    /\ ff[c] = "running"
    /\ ff' = [ff EXCEPT ![c] = "exited"]
    /\ ffExit' = [ffExit EXCEPT ![c] = st]
    /\ rawSize' = [rawSize EXCEPT ![c] = size]
    /\ rawFile' = [rawFile EXCEPT ![c] = size # NoFile]
    /\ IF POST_CONVERT_MP3 /\ ok(st, size)
         THEN /\ mp3' = [mp3 EXCEPT ![c] = "running"]
              /\ mp3Args' = [mp3Args EXCEPT ![c] = convertOggToMp3(c, RECORD_BITRATE)]
              /\ hpc' = [hpc EXCEPT ![c] = "convert"]
              /\ UNCHANGED sdpFile
         ELSE /\ sdpFile' = [sdpFile EXCEPT ![c] = FALSE]
              /\ hpc' = [hpc EXCEPT ![c] = "done"]
              /\ UNCHANGED <<mp3, mp3Args>>
    /\ UNCHANGED <<confVars, prodVars, heapVars, flowVars, mp3Code>>
    /\ Quiet

(* -------------------------------------------------------- convertOggToMp3 *)

\* TranscoderExit with the descriptor's unlink left to a successful exit.
TranscoderExit_keepsSdp(c, code) ==
    /\ mp3[c] = "running"
    /\ mp3' = [mp3 EXCEPT ![c] = "exited"]
    /\ mp3Code' = [mp3Code EXCEPT ![c] = code]
    /\ rawFile' = [rawFile EXCEPT ![c] = IF code = 0 /\ ~KEEP_OGG THEN FALSE ELSE @]
    /\ sdpFile' = [sdpFile EXCEPT ![c] = IF code = 0 THEN FALSE ELSE @]
    /\ hpc' = [hpc EXCEPT ![c] = "done"]
    /\ UNCHANGED <<confVars, prodVars, heapVars, flowVars, ff, ffExit, rawSize,
                   mp3Args>>
    /\ Quiet

\* TranscoderExit with outFile unlinked whatever the exit code is.
TranscoderExit_ignoresCode(c, code) ==
    /\ mp3[c] = "running"
    /\ mp3' = [mp3 EXCEPT ![c] = "exited"]
    /\ mp3Code' = [mp3Code EXCEPT ![c] = code]
    /\ rawFile' = [rawFile EXCEPT ![c] = IF ~KEEP_OGG THEN FALSE ELSE @]
    /\ sdpFile' = [sdpFile EXCEPT ![c] = FALSE]
    /\ hpc' = [hpc EXCEPT ![c] = "done"]
    /\ UNCHANGED <<confVars, prodVars, heapVars, flowVars, ff, ffExit, rawSize,
                   mp3Args>>
    /\ Quiet

\* The transcoder exits: outFile is unlinked on success unless KEEP_OGG, the
\* promise resolves and the exit handler removes the descriptor.
TranscoderExit(c, code) ==
    /\ mp3[c] = "running"
    /\ mp3' = [mp3 EXCEPT ![c] = "exited"]
    /\ mp3Code' = [mp3Code EXCEPT ![c] = code]
    /\ rawFile' = [rawFile EXCEPT ![c] = IF code = 0 /\ ~KEEP_OGG THEN FALSE ELSE @]
    /\ sdpFile' = [sdpFile EXCEPT ![c] = FALSE]
    /\ hpc' = [hpc EXCEPT ![c] = "done"]
    /\ UNCHANGED <<confVars, prodVars, heapVars, flowVars, ff, ffExit, rawSize,
                   mp3Args>>
    /\ Quiet

(* --------------------------------------------------------- specifications *)

\* The promise startRecordingForProducer returned: the catch around the
\* whole body makes every end of the call fulfil it.
startPromise(c) ==
    IF pc[c] = "idle" THEN "none"
    ELSE IF pc[c] \in {"done", "returned", "failed"} THEN "fulfilled"
    ELSE "pending"

\* The steps the event loop takes by itself once a call is under way.
Flow(c) ==
    \/ \E r \in BOOLEAN : PortProbed(c, r)
    \/ \E r \in BOOLEAN : TransportCreated(c, r)
    \/ \E r, can \in BOOLEAN : Connected(c, r, can)
    \/ \E r, w \in BOOLEAN : Consumed(c, r, w)
    \/ Settled(c)
    \/ \E r \in BOOLEAN : Resumed(c, r)

\* The program with producers PS, recorders ending as in XS, and close()
\* calls throwing as in TS.
Run(PS, XS, TS) ==
    \/ \E p \in PS : Produce(p)
    \/ \E p \in Producers, t \in TS : StopRequest(p, t)
    \/ \E p \in PS, s \in CloseSignals, t \in TS : CloseSignal(p, s, t)
    \/ \E c \in Calls : Flow(c)
    \/ \E c \in Calls, x \in XS : RecorderExit(c, x.st, x.size)
    \/ \E c \in Calls, code \in Mp3Codes : TranscoderExit(c, code)

\* Two producers, each recorded once, as POST /produce does.
Next == Run(Producers, CoreExits, {NoThrow})

Spec == Init /\ [][Next]_vars

\* startRecordingForProducer called once more with a producer that already
\* has a call (the k-th call, up to its first await).
StartAgain(p, k) ==
    /\ p \in produced
    /\ k > 1
    /\ pc[<<p, k - 1>>] # "idle"
    /\ pc[<<p, k>>] = "idle"
    /\ pc' = [pc EXCEPT ![<<p, k>>] = "getFreeUdpPort"]
    /\ UNCHANGED <<confVars, prodVars, heapVars, procVars>>
    /\ Quiet

\* One producer whose start is called up to MaxStarts times.
DupNext ==
    \/ Run({"P1"}, CoreExits, {NoThrow})
    \/ \E k \in Starts : StartAgain("P1", k)

DupSpec == Init /\ [][DupNext]_vars

\* One producer, with every way its recorder can end and its close() calls
\* can throw.
SessionNext == Run({"P1"}, AllExits, Throws)

SessionSpec == Init /\ [][SessionNext]_vars

\* What the event loop is bound to do: a pending await settles, and a
\* spawned transcoder exits.  Nothing makes a producer close, a client ask
\* for a stop, or the recorder exit.
Fairness ==
    \A c \in Calls :
        /\ WF_vars(Flow(c))
        /\ WF_vars(\E code \in Mp3Codes : TranscoderExit(c, code))

FairSessionSpec == SessionSpec /\ Fairness

(* ------------------------------------------------------------ properties *)

CallsOf(p) == {c \in Calls : ProducerOf(c) = p}

\* The call's transport and consumer are not open, its recorder has been
\* interrupted if it still runs, and the call is not the registered session.
Released(c) ==
    /\ transport[c] # "open"
    /\ consumer[c] \notin {"paused", "resumed"}
    /\ ff[c] = "running" => killed[c]
    /\ recordings[ProducerOf(c)] # c

\* C1: for every producer, whatever the interleaving of start calls, at most
\* one relay transport, one consumer and one recorder process are ever
\* allocated (a start call for a producer that has a session, or one being
\* started, allocates nothing).
C1_OneSessionPerProducer ==
    \A p \in Producers :
        /\ Cardinality({c \in CallsOf(p) : transport[c] # "none"}) <= 1
        /\ Cardinality({c \in CallsOf(p) : consumer[c] # "none"}) <= 1
        /\ Cardinality({c \in CallsOf(p) : ff[c] # "none"}) <= 1

\* C2: once a producer has emitted a close signal at any moment after its
\* start call began, the call's transport and consumer are eventually closed,
\* its recorder eventually interrupted, and the session does not stay in the
\* registry.  (Stated for the close signal; a stop request runs the same
\* stopRecordingForProducer.)
C2_CloseInterruptsStart ==
    \A c \in Calls :
        (pc[c] # "idle" /\ fired[ProducerOf(c)] # {}) ~> Released(c)

\* C3: in every reachable state, a session that was registered and is no
\* longer in the registry has its transport closed, its consumer closed and
\* its recorder process exited.
C3_RemovedOnlyWhenTerminal ==
    \A c \in Calls :
        (pc[c] = "done" /\ recordings[ProducerOf(c)] # c)
            => /\ transport[c] = "closed"
               /\ consumer[c] = "closed"
               /\ ff[c] = "exited"

\* C4: a start call that failed before its recorder was spawned has no open
\* transport and no open consumer.
C4_FailedStartReleases ==
    \A c \in Calls :
        (pc[c] = "failed" /\ ff[c] = "none")
            => /\ transport[c] # "open"
               /\ consumer[c] \notin {"paused", "resumed"}

\* C5: once the recorder process has exited, for whatever reason, the
\* session's consumer and transport are eventually closed and the session is
\* eventually out of the registry.
C5_ExitDrivesToClosed ==
    \A c \in Calls :
        (ff[c] = "exited")
            ~> /\ transport[c] = "closed"
               /\ consumer[c] = "closed"
               /\ recordings[ProducerOf(c)] # c

\* C6 as stated: a call whose capability check failed has created no relay
\* transport and no consumer, written no descriptor or output file, spawned
\* no process, and its producer is not in the registry.
C6_NothingCreated ==
    \A c \in Calls :
        pc[c] = "returned"
            => /\ transport[c] = "none"
               /\ consumer[c] = "none"
               /\ ~sdpFile[c] /\ ~rawFile[c]
               /\ ff[c] = "none" /\ mp3[c] = "none"
               /\ recordings[ProducerOf(c)] = NoSession

\* C6 amended: a call whose capability check failed has created no consumer,
\* written no descriptor or output file, spawned no process, and its producer
\* is not in the registry; the relay transport it created before the check
\* has been closed, once, when the call returns.
C6_OnlyTransportCreatedAndClosed ==
    \A c \in Calls :
        pc[c] = "returned"
            => /\ transport[c] = "closed" /\ trCloses[c] = 1
               /\ consumer[c] = "none" /\ coCloses[c] = 0
               /\ ~sdpFile[c] /\ ~rawFile[c]
               /\ ff[c] = "none" /\ mp3[c] = "none"
               /\ recordings[ProducerOf(c)] = NoSession

C6_Witness ==
    \E c \in Calls :
        /\ pc[c] = "returned"
        /\ transport[c] = "closed"
        /\ fired[ProducerOf(c)] = CloseSignals

\* C7: once the cleanup listener of a producer has run, however many times
\* (both close signals, or a close signal after an explicit stop), the
\* session has been stopped exactly once: consumer and transport closed
\* once, the recorder interrupted at most once, the session out of the
\* registry.
C7_StoppedOnce ==
    \A p \in Producers :
        cleanups[p] >= 1
            => /\ coCloses[FirstCall(p)] = 1
               /\ trCloses[FirstCall(p)] = 1
               /\ sigints[FirstCall(p)] <= 1
               /\ recordings[p] = NoSession

C7_Witness ==
    \E p \in Producers :
        /\ cleanups[p] = 2
        /\ fired[p] = CloseSignals
        /\ coCloses[FirstCall(p)] = 1
        /\ sigints[FirstCall(p)] = 1

\* C8: a stop request for a producer id that has no session in the registry
\* changes nothing: no signal is sent, no transport or consumer is closed,
\* the registry and every other session stay as they are; the request is
\* answered like any other.
C8_StopWithoutSessionIsNoOp ==
    [][ \A p \in Producers :
          (res' = [route |-> "stop-recording", id |-> p] /\ recordings[p] = NoSession)
              => UNCHANGED <<confVars, prodVars, heapVars, flowVars, procVars, cleanups>>
      ]_vars

C8_Witness ==
    \E p, q \in Producers :
        /\ res = [route |-> "stop-recording", id |-> p]
        /\ p \notin produced
        /\ recordings[q] # NoSession
        /\ ff[recordings[q]] = "running"

\* C9: once a spawned recorder has exited, its descriptor file is eventually
\* deleted, whatever the exit code, signal, file size and configuration
\* (a spawned transcoder eventually exits).
C9_DescriptorRemoved ==
    \A c \in Calls : (ff[c] = "exited") ~> ~sdpFile[c]

C9_Witness ==
    \E c \in Calls :
        /\ ff[c] = "exited"
        /\ ffExit[c].signal = "SIGKILL"
        /\ mp3[c] = "exited" /\ mp3Code[c] = 1
        /\ ~sdpFile[c]

\* The recorder of call c was ended by the interrupt stopRecordingForProducer
\* sent, leaving a raw file below the threshold.
OwnInterruptSmallFile(c) ==
    /\ ff[c] = "exited"
    /\ killed[c]
    /\ ffExit[c].signal = "SIGINT"
    /\ rawSize[c] # NoFile /\ rawSize[c] <= MinSize

\* C10 as stated: a recorder ended by the session's own interrupt with a raw
\* file below the threshold is unusable: no transcoder is spawned, the raw
\* file is retained and the descriptor is removed.
C10_InterruptedSmallIsUnusable ==
    \A c \in Calls :
        OwnInterruptSmallFile(c)
            => /\ mp3[c] = "none"
               /\ rawFile[c]
               /\ ~sdpFile[c]

\* C10 amended: a recorder ended by the session's own interrupt with a raw
\* file below the threshold is usable: a transcoder is spawned exactly when
\* post-conversion is enabled; the raw file is retained unless that
\* transcoder exits with code 0 and KEEP_OGG is off; the descriptor is
\* removed at once when no transcoder is spawned and otherwise when the
\* transcoder exits.
C10_InterruptedSmallIsUsable ==
    \A c \in Calls :
        OwnInterruptSmallFile(c)
            => /\ (mp3[c] # "none") <=> POST_CONVERT_MP3
               /\ rawFile[c] <=> ~(mp3[c] = "exited" /\ mp3Code[c] = 0 /\ ~KEEP_OGG)
               /\ sdpFile[c] <=> (mp3[c] = "running")

C10_Witness ==
    \E c \in Calls :
        /\ OwnInterruptSmallFile(c)
        /\ rawSize[c] = 2048
        /\ POST_CONVERT_MP3
        /\ mp3[c] = "exited"
        /\ ~sdpFile[c]

\* C11: with post-conversion disabled, whatever way the recorder ends, no
\* transcoder is ever spawned (so nothing ever writes a derived file, which
\* only the transcoder does) and the raw file the recorder left is never
\* deleted.
C11_DisabledNeverConverts ==
    ~POST_CONVERT_MP3
        => \A c \in Calls :
             /\ mp3[c] = "none"
             /\ mp3Args[c] = NoArgs
             /\ ff[c] = "exited" => (rawFile[c] <=> rawSize[c] # NoFile)

C11_Witness ==
    /\ ~POST_CONVERT_MP3
    /\ \E c \in Calls :
         /\ ff[c] = "exited"
         /\ ffExit[c].code = 0
         /\ rawSize[c] = MinSize + 1
         /\ rawFile[c]
         /\ mp3[c] = "none"

\* C12: with post-conversion enabled and a raw file above the threshold
\* (which alone makes the exit usable), once the recorder has exited a
\* transcoder has been spawned on that raw file with the configured bitrate,
\* and once it has exited with code 0 the raw file is gone exactly when
\* KEEP_OGG is off.
C12_UsableIsConverted ==
    \A c \in Calls :
        (POST_CONVERT_MP3 /\ ff[c] = "exited" /\ rawSize[c] > MinSize)
            => /\ mp3[c] \in {"running", "exited"}
               /\ mp3Args[c] = [input |-> c, bitrate |-> RECORD_BITRATE]
               /\ (mp3[c] = "exited" /\ mp3Code[c] = 0) => (rawFile[c] <=> KEEP_OGG)

C12_Witness ==
    /\ POST_CONVERT_MP3
    /\ ~KEEP_OGG
    /\ \E c \in Calls :
         /\ ffExit[c].code = 0
         /\ rawSize[c] = MinSize + 1
         /\ mp3[c] = "exited" /\ mp3Code[c] = 0
         /\ mp3Args[c].bitrate = RECORD_BITRATE
         /\ ~rawFile[c]
         /\ ~sdpFile[c]

\* C13: the promise of a start call is never rejected; POST /produce answers
\* with the producer's id and stores the producer in the same step, and the
\* step in which a start call fails or gives up changes neither the
\* producers table nor any response.
C13_FailuresStayInside ==
    [][ \A p \in Producers :
          /\ startPromise(FirstCall(p))' # "rejected"
          /\ (p \notin produced /\ p \in produced')
                => /\ res' = [route |-> "produce", id |-> p]
                   /\ p \in producers'
          /\ (/\ pc[FirstCall(p)] \notin {"failed", "returned"}
              /\ pc'[FirstCall(p)] \in {"failed", "returned"})
                => /\ producers' = producers
                   /\ res' = NoResponse
      ]_vars

C13_Witness ==
    /\ pc[FirstCall("P1")] = "failed" /\ transport[FirstCall("P1")] = "none"
    /\ pc[FirstCall("P2")] = "failed" /\ consumer[FirstCall("P2")] = "paused"
    /\ producers = {"P1", "P2"}

\* C14: in every call the descriptor exists only once the transport and the
\* consumer do, the recorder runs only with its descriptor written, and the
\* consumer stays paused through the settling delay and the resume call: it
\* is resumed only in a call that has spawned its recorder and got past both.
C14_StartOrder ==
    \A c \in Calls :
        /\ (sdpFile[c] \/ ff[c] # "none")
              => (transport[c] # "none" /\ consumer[c] # "none")
        /\ ff[c] = "running" => sdpFile[c]
        /\ pc[c] \in {"settle", "resume"} => (consumer[c] = "paused" /\ ff[c] # "none")
        /\ consumer[c] = "resumed" => (ff[c] # "none" /\ pc[c] = "done")

C14_Witness ==
    \E c \in Calls :
        /\ pc[c] = "done"
        /\ consumer[c] = "resumed"
        /\ ff[c] = "running"
        /\ sdpFile[c]

\* C15 as stated: the exit is usable (the transcoder is started when
\* post-conversion is on) exactly when the exit code is 0, or the signal is
\* the interrupt, or the file exceeds the threshold.
C15_UsableIffSuccessInterruptOrData ==
    \A c \in Calls :
        (POST_CONVERT_MP3 /\ ff[c] = "exited")
            => ((mp3[c] # "none")
                  <=> \/ ffExit[c].code = 0
                      \/ ffExit[c].signal = "SIGINT"
                      \/ rawSize[c] > MinSize)

\* C15 amended: the exit is usable exactly when the exit code is 0 or 255
\* (what ffmpeg often exits with after an interrupt), or the signal is the
\* interrupt, or the file exceeds the threshold; every other combination is
\* unusable and starts no transcoder.
C15_UsableIffSuccess255InterruptOrData ==
    \A c \in Calls :
        (POST_CONVERT_MP3 /\ ff[c] = "exited")
            => ((mp3[c] # "none")
                  <=> \/ ffExit[c].code = 0
                      \/ ffExit[c].code = 255
                      \/ ffExit[c].signal = "SIGINT"
                      \/ rawSize[c] > MinSize)

C15_Witness ==
    /\ POST_CONVERT_MP3
    /\ \E c \in Calls :
         /\ ff[c] = "exited"
         /\ ffExit[c].code = 255
         /\ ~killed[c]
         /\ rawSize[c] = 2048
         /\ mp3[c] # "none"

\* C16: a transcoder exists only for a recorder that has exited; while it
\* runs the raw file is as the recorder left it; the raw file is deleted
\* only once the transcoder has exited.
C16_PostProcessingAfterExit ==
    \A c \in Calls :
        /\ mp3[c] # "none" => ff[c] = "exited"
        /\ mp3[c] = "running" => (rawFile[c] <=> rawSize[c] # NoFile)
        /\ (ff[c] = "exited" /\ rawSize[c] # NoFile /\ ~rawFile[c]) => mp3[c] = "exited"

C16_Witness ==
    /\ ~KEEP_OGG
    /\ \E c \in Calls :
         /\ mp3[c] = "running"
         /\ ff[c] = "exited"
         /\ rawFile[c]

\* C17: a stop of a registered session calls consumer.close(), then
\* transport.close(), then sends the recorder the interrupt (and no other
\* signal) if it still runs, also when a close() call throws: a stopped
\* session whose recorder runs has been sent exactly one interrupt.
C17_CloseThenInterrupt ==
    \A c \in Calls :
        /\ stopLog[c] \in { << >>,
                            <<"consumer.close", "transport.close">>,
                            <<"consumer.close", "transport.close", "kill SIGINT">> }
        /\ (pc[c] = "done" /\ recordings[ProducerOf(c)] # c) => stopLog[c] # << >>
        /\ stopLog[c] = <<"consumer.close", "transport.close">> => ff[c] = "exited"
        /\ (stopLog[c] # << >> /\ ff[c] = "running") => (killed[c] /\ sigints[c] = 1)

C17_Witness ==
    \E c \in Calls :
        /\ stopLog[c] = <<"consumer.close", "transport.close", "kill SIGINT">>
        /\ consumer[c] = "resumed"
        /\ transport[c] = "open"
        /\ killed[c]
        /\ ff[c] = "running"

\* C18: after a transcoder has exited with a code other than 0 the raw file
\* is still as the recorder left it, whatever KEEP_OGG is, and the
\* descriptor has been deleted.
C18_FailedConversionKeepsRaw ==
    \A c \in Calls :
        (mp3[c] = "exited" /\ mp3Code[c] # 0)
            => /\ rawFile[c] <=> rawSize[c] # NoFile
               /\ ~sdpFile[c]
               /\ hpc[c] = "done"

C18_Witness ==
    /\ ~KEEP_OGG
    /\ \E c \in Calls :
         /\ mp3[c] = "exited" /\ mp3Code[c] = 1
         /\ rawFile[c]
         /\ ~sdpFile[c]

\* Everything that belongs to the sessions of producer p.
SessionOf(p) ==
    << recordings[p],
       [c \in CallsOf(p) |->
          << pc[c], transport[c], consumer[c], ff[c], killed[c], ffExit[c],
             rawSize[c], rawFile[c], sdpFile[c], hpc[c], mp3[c], mp3Code[c],
             mp3Args[c], stopLog[c] >>] >>

\* A step taken for producer p: a request naming it, one of its close
\* signals, a step of one of its start calls, or the exit of one of its
\* processes.
ActsOn(p) ==
    \/ Produce(p)
    \/ \E t \in Throws : StopRequest(p, t)
    \/ \E s \in CloseSignals, t \in Throws : CloseSignal(p, s, t)
    \/ \E c \in CallsOf(p) :
         \/ Flow(c)
         \/ \E x \in AllExits : RecorderExit(c, x.st, x.size)
         \/ \E code \in Mp3Codes : TranscoderExit(c, code)

\* C19: a step taken for producer A (a stop, a close signal, a failing or
\* succeeding step of its start, an exit of its processes) leaves the
\* registry entry, transport, consumer, processes and files of every other
\* producer B unchanged.
C19_SessionsIndependent ==
    [][ \A a, b \in Producers :
          (a # b /\ ActsOn(a)) => UNCHANGED SessionOf(b)
      ]_vars

C19_Witness ==
    \E a, b \in Producers :
        /\ a # b
        /\ pc[FirstCall(a)] = "done"
        /\ recordings[a] = NoSession
        /\ stopLog[FirstCall(a)] # << >>
        /\ recordings[b] = FirstCall(b)
        /\ consumer[FirstCall(b)] = "resumed"
        /\ ff[FirstCall(b)] = "running"

\* C20: every producer with a session in the registry is in the producers
\* table, and a producer that has emitted a close signal has no session in
\* the registry.
C20_RegisteredProducersAreActive ==
    \A p \in Producers :
        /\ recordings[p] # NoSession => p \in producers
        /\ fired[p] # {} => recordings[p] = NoSession

====
